---- MODULE Spec2Model ----
(***************************************************************************)
(* Model of the DOAJ British-modernism pipeline:                           *)
(*   analyze_modernism.py       classifier and bucket construction         *)
(*   create_analysis_format.py  reporter (CSV rows, structured output,     *)
(*                              per-era files)                             *)
(* Text is modelled by TLA+ strings; the substring test, lower-casing and  *)
(* joining are computed character by character as Python computes them.    *)
(***************************************************************************)
EXTENDS Integers, Sequences, FiniteSets, TLC

VARIABLES paper, era, medium,
          data, pc, err,
          era_categories, medium_categories, all_papers_metadata,
          results, csv_data, output, era_files

vars == <<paper, era, medium, data, pc, err,
          era_categories, medium_categories, all_papers_metadata,
          results, csv_data, output, era_files>>

\* Largest number of records in data['results'].
MaxPapers == 3

(***************************************************************************)
(* JSON values of a field: absent key, null, a number, a string, a list    *)
(* of strings.  A number carries its (integer) value in n.                 *)
(***************************************************************************)
JAbsent == [t |-> "absent", s |-> "", l |-> <<>>, n |-> 0]
JNull == [t |-> "null", s |-> "", l |-> <<>>, n |-> 0]
JNumber(x) == [t |-> "num", s |-> "", l |-> <<>>, n |-> x]
JStr(x) == [t |-> "str", s |-> x, l |-> <<>>, n |-> 0]
JList(x) == [t |-> "list", s |-> "", l |-> x, n |-> 0]

\* A non-zero number and the number 0.
JNum == JNumber(7)
JZero == JNumber(0)

\* dict.get(key, default): the default only when the key is absent.
DictGet(j, default) == IF j.t = "absent" THEN default ELSE j

(***************************************************************************)
(* String primitives.                                                      *)
(***************************************************************************)
\* Input text is ASCII; str.lower() changes the letters A-Z only.
Uppers == "ABCDEFGHIJKLMNOPQRSTUVWXYZ"
Lowers == "abcdefghijklmnopqrstuvwxyz"

\* str.lower() on one character.
LowerChar(c) ==
  IF \E i \in 1..Len(Uppers) : SubSeq(Uppers, i, i) = c
  THEN LET i == CHOOSE k \in 1..Len(Uppers) : SubSeq(Uppers, k, k) = c
       IN SubSeq(Lowers, i, i)
  ELSE c

RECURSIVE Lower(_)
\* str.lower()
Lower(s) ==
  IF Len(s) = 0 THEN ""
  ELSE LowerChar(SubSeq(s, 1, 1)) \o Lower(SubSeq(s, 2, Len(s)))

\* The characters of a string, as Python iterates over it.
Chars(s) == [i \in 1..Len(s) |-> SubSeq(s, i, i)]

RECURSIVE JoinWith(_, _)
\* sep.join(list)
JoinWith(sep, l) ==
  IF Len(l) = 0 THEN ""
  ELSE IF Len(l) = 1 THEN l[1]
  ELSE l[1] \o sep \o JoinWith(sep, Tail(l))

\* `k in s` for strings: k occurs as a substring of s.
Contains(k, s) ==
  \E i \in 1..(Len(s) - Len(k) + 1) : SubSeq(s, i, i + Len(k) - 1) = k

\* str.replace(old, new) for a one-character old.
RECURSIVE ReplaceChar(_, _, _)
ReplaceChar(s, old, new) ==
  IF Len(s) = 0 THEN ""
  ELSE (IF SubSeq(s, 1, 1) = old THEN new ELSE SubSeq(s, 1, 1))
       \o ReplaceChar(SubSeq(s, 2, Len(s)), old, new)

(***************************************************************************)
(* Outcome of a call: a returned value or a raised exception.              *)
(***************************************************************************)
Return(v) == [exc |-> "", val |-> v]
Raise(e) == [exc |-> e, val |-> ""]
NotCalled == [exc |-> "not called", val |-> ""]
Returned(r) == r.exc = ""
Raised(r) == r.exc \in {"AttributeError", "TypeError", "ValueError", "IndexError"}

\* The exception that ended a script, and the function it was raised in.
NoError == [in |-> "", exc |-> ""]

(***************************************************************************)
(* Classifier (analyze_modernism.py).                                      *)
(***************************************************************************)
early_indicators == <<"wilde", "aestheticism", "decadence", "fin de siècle",
                      "symbolism", "pater", "beardsley", "symons">>
high_indicators == <<"pound", "eliot", "joyce", "woolf", "yeats", "imagism",
                     "vorticism", "stream of consciousness", "waste land",
                     "ulysses">>
late_indicators == <<"auden", "spender", "isherwood", "macneice", "thirties",
                     "1930s", "spanish civil war", "world war ii">>

EarlyLabel == "Early Modernism (1890s-1910s)"
HighLabel == "High Modernism (1910s-1920s)"
LateLabel == "Late Modernism (1930s-1950s)"
GeneralLabel == "General Modernism"

academic_words == <<"journal", "review", "studies", "quarterly", "university",
                    "research">>
literary_words == <<"magazine", "letters", "writing", "poetry", "literature",
                    "arts">>

AcademicLabel == "Academic Journal"
LiteraryLabel == "Literary Magazine"
OtherLabel == "Other Publication"

\* paper.get('bibjson', {}).get(f, ...): the field as the lookup sees it.
\* (Only used where paper.bibjson is a dict or absent.)
BibField(p, f) == IF p.bibjson = "dict" THEN p[f] ELSE JAbsent

\* bibjson.get('journal', {}).get(f, ...)
JournalField(p, f) ==
  IF p.bibjson = "dict" /\ p.journal = "dict" THEN p[f] ELSE JAbsent

\* sum(1 for indicator in indicators if indicator in content)
IndicatorCount(indicators, content) ==
  Cardinality({i \in 1..Len(indicators) : Contains(indicators[i], content)})

\* The content string of categorize_by_era (lines 13-17), for a paper on
\* which those lines do not raise.
EraContent(p) ==
  LET abstract == Lower(DictGet(BibField(p, "abstract"), JStr("")).s)
      kw == DictGet(BibField(p, "keywords"), JList(<<>>))
      keywords == Lower(JoinWith(" ", IF kw.t = "str" THEN Chars(kw.s) ELSE kw.l))
      title == Lower(DictGet(BibField(p, "title"), JStr("")).s)
  IN Lower(title \o " " \o abstract \o " " \o keywords)

\* <<early_count, high_count, late_count>> (lines 23-25)
EraCounts(content) ==
  <<IndicatorCount(early_indicators, content),
    IndicatorCount(high_indicators, content),
    IndicatorCount(late_indicators, content)>>

\* Variant: comparisons are not strict, so a tied leader wins.
EraDecisionNonStrict(c) ==
  IF c[1] >= c[2] /\ c[1] >= c[3] THEN EarlyLabel
  ELSE IF c[2] >= c[1] /\ c[2] >= c[3] THEN HighLabel
  ELSE IF c[3] >= c[1] /\ c[3] >= c[2] THEN LateLabel
  ELSE GeneralLabel

\* Variant: highest count wins, the first of several tied nonzero leaders.
EraDecisionHighestWins(c) ==
  IF c[1] = 0 /\ c[2] = 0 /\ c[3] = 0 THEN GeneralLabel
  ELSE IF c[1] >= c[2] /\ c[1] >= c[3] THEN EarlyLabel
  ELSE IF c[2] >= c[3] THEN HighLabel
  ELSE LateLabel

\* The if/elif chain of lines 27-34.
EraDecision(c) ==
  IF c[1] > c[2] /\ c[1] > c[3] THEN EarlyLabel
  ELSE IF c[2] > c[1] /\ c[2] > c[3] THEN HighLabel
  ELSE IF c[3] > c[1] /\ c[3] > c[2] THEN LateLabel
  ELSE GeneralLabel

\* Variant: an undated record is never given an era of its own.
categorize_by_era_YearAware(p) ==
  IF DictGet(BibField(p, "year"), JStr("")).s = "n.d."
  THEN Return(GeneralLabel)
  ELSE Return(EraDecision(EraCounts(EraContent(p))))

categorize_by_era(p) ==
  IF p.bibjson = "null" THEN Raise("AttributeError")
  ELSE IF DictGet(BibField(p, "abstract"), JStr("")).t # "str"
       THEN Raise("AttributeError")
  ELSE IF DictGet(BibField(p, "keywords"), JList(<<>>)).t \notin {"list", "str"}
       THEN Raise("TypeError")
  ELSE IF DictGet(BibField(p, "title"), JStr("")).t # "str"
       THEN Raise("AttributeError")
  ELSE Return(EraDecision(EraCounts(EraContent(p))))

\* The content string of categorize_by_medium (lines 37-40).
MediumContent(p) ==
  LET journal_title == Lower(DictGet(JournalField(p, "jtitle"), JStr("")).s)
      publisher == Lower(DictGet(JournalField(p, "publisher"), JStr("")).s)
  IN journal_title \o " " \o publisher

\* any(word in content for word in words)
AnyWord(words, content) ==
  \E i \in 1..Len(words) : Contains(words[i], content)

\* Variant: the literary-magazine words are tested first.
MediumDecisionLiteraryFirst(content) ==
  IF AnyWord(literary_words, content) THEN LiteraryLabel
  ELSE IF AnyWord(academic_words, content) THEN AcademicLabel
  ELSE OtherLabel

\* The if/elif chain of lines 42-47.
MediumDecision(content) ==
  IF AnyWord(academic_words, content) THEN AcademicLabel
  ELSE IF AnyWord(literary_words, content) THEN LiteraryLabel
  ELSE OtherLabel

categorize_by_medium(p) ==
  IF p.bibjson = "null" THEN Raise("AttributeError")
  ELSE IF p.bibjson = "dict" /\ p.journal = "null" THEN Raise("AttributeError")
  ELSE IF DictGet(JournalField(p, "jtitle"), JStr("")).t # "str"
       THEN Raise("AttributeError")
  ELSE IF DictGet(JournalField(p, "publisher"), JStr("")).t # "str"
       THEN Raise("AttributeError")
  ELSE Return(MediumDecision(MediumContent(p)))

\* A sequence-valued bibjson entry (author, identifier, link, subject):
\* bibjson.get(f, []).
BibList(p, f) == IF p.bibjson = "dict" THEN p[f] ELSE <<>>

\* SelectSeq with the result kept as a sequence of the selected field.
RECURSIVE FullTextUrls(_)
\* [link['url'] for link in links if link.get('type') == 'fulltext']
FullTextUrls(links) ==
  IF Len(links) = 0 THEN <<>>
  ELSE (IF links[1].type = "fulltext" THEN <<links[1].url>> ELSE <<>>)
       \o FullTextUrls(Tail(links))

RECURSIVE FirstDoi(_)
\* next((id['id'] for id in identifiers if id.get('type') == 'doi'), None)
FirstDoi(identifiers) ==
  IF Len(identifiers) = 0 THEN JNull
  ELSE IF identifiers[1].type = "doi" THEN JStr(identifiers[1].id)
  ELSE FirstDoi(Tail(identifiers))

\* The dictionary of lines 51-64, for a paper on which they do not raise.
Metadata(p) ==
  [id |-> DictGet(p.id, JNull),
   title |-> DictGet(BibField(p, "title"), JStr("")),
   authors |-> BibList(p, "author"),
   year |-> DictGet(BibField(p, "year"), JStr("")),
   journal |-> DictGet(JournalField(p, "jtitle"), JStr("")),
   publisher |-> DictGet(JournalField(p, "publisher"), JStr("")),
   country |-> DictGet(JournalField(p, "country"), JStr("")),
   keywords |-> DictGet(BibField(p, "keywords"), JList(<<>>)),
   abstract |-> DictGet(BibField(p, "abstract"), JStr("")),
   doi |-> FirstDoi(BibList(p, "identifier")),
   full_text_links |-> FullTextUrls(BibList(p, "link")),
   subjects |-> BibList(p, "subject")]

\* bibjson.get(...) (line 53) needs a dict for bibjson, and
\* bibjson.get('journal', {}).get(...) (line 56) a dict for journal.
extract_metadata_for_analysis(p) ==
  IF p.bibjson = "null" THEN Raise("AttributeError")
  ELSE IF p.bibjson = "dict" /\ p.journal = "null" THEN Raise("AttributeError")
  ELSE Return(Metadata(p))

\* {**metadata, 'era': era, 'medium': medium}
WithLabels(m, e, md) ==
  [id |-> m.id, title |-> m.title, authors |-> m.authors, year |-> m.year,
   journal |-> m.journal, publisher |-> m.publisher, country |-> m.country,
   keywords |-> m.keywords, abstract |-> m.abstract, doi |-> m.doi,
   full_text_links |-> m.full_text_links, subjects |-> m.subjects,
   era |-> e, medium |-> md]

\* The metadata a labelled all_metadata entry was built from.
WithoutLabels(m) ==
  [id |-> m.id, title |-> m.title, authors |-> m.authors, year |-> m.year,
   journal |-> m.journal, publisher |-> m.publisher, country |-> m.country,
   keywords |-> m.keywords, abstract |-> m.abstract, doi |-> m.doi,
   full_text_links |-> m.full_text_links, subjects |-> m.subjects]

\* Variant: the bucket is assigned a fresh one-element list.
BucketAppendOverwrite(categories, key, m) ==
  [k \in (DOMAIN categories) \cup {key} |->
     IF k = key THEN <<m>> ELSE categories[k]]

\* Variant: the record is inserted at the front of the bucket.
BucketAppendFront(categories, key, m) ==
  [k \in (DOMAIN categories) \cup {key} |->
     IF k \in DOMAIN categories
     THEN (IF k = key THEN <<m>> \o categories[k] ELSE categories[k])
     ELSE <<m>>]

\* defaultdict(list): categories[key].append(m)
BucketAppend(categories, key, m) ==
  [k \in (DOMAIN categories) \cup {key} |->
     IF k \in DOMAIN categories
     THEN (IF k = key THEN Append(categories[k], m) ELSE categories[k])
     ELSE <<m>>]

(***************************************************************************)
(* Input records.                                                          *)
(***************************************************************************)
\* A raw DOAJ record.  bibjson and journal are "dict", "absent" or "null".
MkPaper(id, bib, ti, ab, kw, yr, jn, jt, pb, co, ids, lk) ==
  [id |-> id, bibjson |-> bib, title |-> ti, abstract |-> ab,
   keywords |-> kw, year |-> yr, journal |-> jn, jtitle |-> jt,
   publisher |-> pb, country |-> co,
   author |-> <<"A. Author">>, identifier |-> ids, link |-> lk,
   subject |-> <<"Language and Literature">>]

\* A record that only carries the text fields the classifier reads.
TextPaper(bib, title, abstract, keywords, jn, jtitle, publisher) ==
  MkPaper(JStr("id0"), bib, title, abstract, keywords, JStr("2001"), jn,
          jtitle, publisher, JStr("GB"), <<>>, <<>>)

NoPaper == TextPaper("absent", JAbsent, JAbsent, JAbsent, "absent", JAbsent, JAbsent)

Titles ==
  {JAbsent, JStr(""), JStr("Oscar Wilde and Aestheticism"),
   JStr("T.S. Eliot: The Waste Land"), JStr("Wilde and Joyce"),
   JStr("The Waste"), JStr("Paternal AUDEN")}

Abstracts ==
  {JAbsent, JStr(""), JStr("Land of the thirties: Auden and Spender"),
   JStr("Decadence and symbolism in Pater"),
   JStr("Joyce, Woolf and the stream of consciousness")}

KeywordLists ==
  {JAbsent, JList(<<>>), JList(<<"YEATS", "Fin de Siecle", "Decadence">>),
   JList(<<"waste", "land">>), JList(<<"Isherwood">>),
   JList(<<"Beardsley", "Symons", "Pound", "Ulysses">>)}

JournalTitles ==
  {JAbsent, JStr(""), JStr("Journal of Modern Literature Studies"),
   JStr("Poetry Magazine"), JStr("Modernist Cultures"), JStr("POETRY REVIEW")}

Publishers ==
  {JAbsent, JStr(""), JStr("Edinburgh University Press"), JStr("Arts Council"),
   JStr("Brill")}

\* Records of the data model: every field absent or of its declared type.
\* Every combination of text fields with two journals, and every combination
\* of journal fields with two texts.
ClassifyPapers ==
  {TextPaper("dict", t, a, k, "dict", j, pb) :
     t \in Titles, a \in Abstracts, k \in KeywordLists,
     j \in {JStr("Poetry Magazine")}, pb \in {JAbsent, JStr("Brill")}}
  \cup {TextPaper("dict", t, JAbsent, k, "dict", j, pb) :
     t \in {JStr("T.S. Eliot: The Waste Land"), JStr("")},
     k \in {JList(<<>>)},
     j \in JournalTitles, pb \in Publishers}
  \cup {TextPaper("absent", JStr("Ezra Pound"), JAbsent, JAbsent, "dict",
                  JStr("Poetry Magazine"), JAbsent),
        TextPaper("dict", JStr("Ezra Pound"), JAbsent, JAbsent, "absent",
                  JStr("Poetry Magazine"), JAbsent)}

\* Records with absent, null and wrongly typed fields.
MalformedPapers ==
  {TextPaper(b, t, a, k, jn, j, pb) :
     b \in {"dict", "absent", "null"},
     t \in {JAbsent, JNull, JNum, JStr("Oscar Wilde")},
     a \in {JAbsent, JNull, JStr("Joyce")},
     k \in {JAbsent, JNull, JNum, JStr("pound"), JList(<<"Auden">>)},
     jn \in {"dict", "absent", "null"},
     j \in {JAbsent, JNull, JStr("Poetry Review")},
     pb \in {JAbsent, JNum, JZero, JStr("Brill")}}

(***************************************************************************)
(* Single-record classification: classify(record).                         *)
(***************************************************************************)
PipelineIdle ==
  /\ data = <<>>
  /\ pc = "classify"
  /\ err = NoError
  /\ era_categories = <<>>
  /\ medium_categories = <<>>
  /\ all_papers_metadata = <<>>
  /\ results = <<>>
  /\ csv_data = <<>>
  /\ output = <<>>
  /\ era_files = <<>>

PipelineVars == <<data, pc, err, era_categories, medium_categories,
                  all_papers_metadata, results, csv_data, output, era_files>>

InitClassify ==
  /\ paper \in ClassifyPapers
  /\ era = NotCalled
  /\ medium = NotCalled
  /\ PipelineIdle

InitMalformed ==
  /\ paper \in MalformedPapers
  /\ era = NotCalled
  /\ medium = NotCalled
  /\ PipelineIdle

ClassifyEra ==
  /\ pc = "classify"
  /\ era = NotCalled
  /\ era' = categorize_by_era(paper)
  /\ UNCHANGED <<paper, medium, PipelineVars>>

ClassifyMedium ==
  /\ pc = "classify"
  /\ medium = NotCalled
  /\ medium' = categorize_by_medium(paper)
  /\ UNCHANGED <<paper, era, PipelineVars>>

NextClassify == ClassifyEra \/ ClassifyMedium

SpecClassify == InitClassify /\ [][NextClassify]_vars

SpecMalformed == InitMalformed /\ [][NextClassify]_vars

(***************************************************************************)
(* Properties of single-record classification.                             *)
(***************************************************************************)
EraLabelOf == <<EarlyLabel, HighLabel, LateLabel>>

\* Set x strictly exceeds both other sets in the counts c.
StrictLeader(c, x) == \A y \in (1..3) \ {x} : c[x] > c[y]

PaperCounts == EraCounts(EraContent(paper))

\* C1: categorize_by_era returns the label of the indicator set whose count
\* strictly exceeds both other counts, and General Modernism whenever no
\* set's count strictly exceeds both others (ties and all-zero included).
C1_StrictMajority ==
  era # NotCalled =>
    /\ Returned(era)
    /\ \A x \in 1..3 : StrictLeader(PaperCounts, x) => era.val = EraLabelOf[x]
    /\ (~ \E x \in 1..3 : StrictLeader(PaperCounts, x)) => era.val = GeneralLabel

C1_Witness ==
  /\ era # NotCalled
  /\ PaperCounts = <<2, 2, 0>>
  /\ era.val = GeneralLabel

\* Two or more sets share an equal nonzero count.
EqualNonzeroPair(c) ==
  \E x, y \in 1..3 : x # y /\ c[x] = c[y] /\ c[x] > 0

\* Two or more sets share an equal nonzero count that no set exceeds.
TiedForHighest(c) ==
  \E x, y \in 1..3 : x # y /\ c[x] = c[y] /\ c[x] > 0
                     /\ \A z \in 1..3 : c[z] <= c[x]

\* C2 (as stated): every record with equal nonzero counts across two or more
\* sets is classified General Modernism.
C2_Original ==
  (era # NotCalled /\ EqualNonzeroPair(PaperCounts)) => era.val = GeneralLabel

\* C2 (amended): every record whose equal nonzero counts across two or more
\* sets are the highest count (no third set exceeds them) is classified
\* General Modernism.
C2_TieForHighest ==
  (era # NotCalled /\ TiedForHighest(PaperCounts)) => era.val = GeneralLabel

C2_Witness ==
  /\ era # NotCalled
  /\ PaperCounts = <<1, 0, 1>>
  /\ era.val = GeneralLabel

\* C3: Academic Journal if the journal-title/publisher text contains an
\* academic word, else Literary Magazine if it contains a literary-magazine
\* word, else Other Publication; academic wins when both are present.
C3_MediumPrecedence ==
  medium # NotCalled =>
    LET content == MediumContent(paper)
        academic == \E i \in 1..Len(academic_words) :
                      Contains(academic_words[i], content)
        literary == \E i \in 1..Len(literary_words) :
                      Contains(literary_words[i], content)
    IN /\ Returned(medium)
       /\ academic => medium.val = AcademicLabel
       /\ (~academic /\ literary) => medium.val = LiteraryLabel
       /\ (~academic /\ ~literary) => medium.val = OtherLabel

C3_Witness ==
  /\ medium # NotCalled
  /\ Contains("poetry", MediumContent(paper))
  /\ Contains("review", MediumContent(paper))
  /\ medium.val = AcademicLabel

\* The name of an era label: the label without its date range, so that
\* "High Modernism (1910s-1920s)" names the era "High Modernism".
EraName(label) ==
  LET Opens == {i \in 1..(Len(label) - 1) : SubSeq(label, i, i + 1) = " ("}
  IN IF Opens = {} THEN label
     ELSE SubSeq(label, 1, (CHOOSE i \in Opens : \A j \in Opens : i <= j) - 1)

\* C4: for every record, classification yields exactly one era label of
\* {Early Modernism, High Modernism, Late Modernism, General Modernism} (the
\* code spells the first three with their date ranges) and exactly one medium
\* label of {Academic Journal, Literary Magazine, Other Publication}; never
\* zero labels, never a value outside the enumerations.
C4_ExactlyOneLabel ==
  /\ era # NotCalled =>
       /\ Returned(era)
       /\ EraName(era.val) \in {"Early Modernism", "High Modernism",
                                "Late Modernism", "General Modernism"}
  /\ medium # NotCalled =>
       /\ Returned(medium)
       /\ medium.val \in {"Academic Journal", "Literary Magazine",
                          "Other Publication"}

\* The record with every absent or malformed field replaced by an empty one.
Sanitize(p) ==
  LET str(j) == IF j.t = "str" THEN j ELSE JStr("")
      list(j) == IF j.t = "list" THEN j ELSE JList(<<>>)
      bibOk == p.bibjson = "dict"
      jnOk == bibOk /\ p.journal = "dict"
  IN [p EXCEPT !.bibjson = "dict",
               !.journal = "dict",
               !.title = IF bibOk THEN str(@) ELSE JStr(""),
               !.abstract = IF bibOk THEN str(@) ELSE JStr(""),
               !.keywords = IF bibOk THEN list(@) ELSE JList(<<>>),
               !.jtitle = IF jnOk THEN str(@) ELSE JStr(""),
               !.publisher = IF jnOk THEN str(@) ELSE JStr("")]

\* C5: with any fields absent or malformed, categorize_by_era and
\* categorize_by_medium raise no exception and return what they return for
\* the record with those fields empty.
C5_NoRaiseOnMalformed ==
  /\ era # NotCalled =>
       /\ Returned(era)
       /\ era = categorize_by_era(Sanitize(paper))
  /\ medium # NotCalled =>
       /\ Returned(medium)
       /\ medium = categorize_by_medium(Sanitize(paper))

(***************************************************************************)
(* Reporter (create_analysis_format.py).                                   *)
(***************************************************************************)
\* Truth value of a JSON value (`if p['country']`, `if paper.get('doi')`).
Truthy(j) ==
  \/ j.t = "str" /\ j.s # ""
  \/ j.t = "list" /\ j.l # <<>>
  \/ j.t = "num" /\ j.n # 0

\* '; '.join(x) for a list of strings or a string.
JoinSemi(j) == JoinWith("; ", IF j.t = "str" THEN Chars(j.s) ELSE j.l)

\* len(x) for a list of strings or a string.
PyLen(j) == IF j.t = "str" THEN Len(j.s) ELSE Len(j.l)

\* Variant: the era column is filled from the medium and vice versa.
CsvRowSwapped(m) ==
  [id |-> m.id, title |-> m.title, authors |-> JoinWith("; ", m.authors),
   year |-> m.year, era |-> m.medium, journal |-> m.journal,
   publisher |-> m.publisher, country |-> m.country, medium |-> m.era,
   keywords |-> JoinSemi(m.keywords),
   abstract |-> ReplaceChar(ReplaceChar(m.abstract.s, "\n", " "), "\r", " "),
   doi |-> m.doi,
   full_text_links |-> JoinWith("; ", m.full_text_links),
   subjects |-> JoinWith("; ", m.subjects),
   abstract_length |-> Len(m.abstract.s),
   has_doi |-> IF Truthy(m.doi) THEN "Yes" ELSE "No",
   has_full_text |-> IF m.full_text_links # <<>> THEN "Yes" ELSE "No",
   keyword_count |-> PyLen(m.keywords)]

\* One row of create_csv_for_analysis (lines 15-34).
CsvRow(m) ==
  [id |-> m.id, title |-> m.title, authors |-> JoinWith("; ", m.authors),
   year |-> m.year, era |-> m.era, journal |-> m.journal,
   publisher |-> m.publisher, country |-> m.country, medium |-> m.medium,
   keywords |-> JoinSemi(m.keywords),
   abstract |-> ReplaceChar(ReplaceChar(m.abstract.s, "\n", " "), "\r", " "),
   doi |-> m.doi,
   full_text_links |-> JoinWith("; ", m.full_text_links),
   subjects |-> JoinWith("; ", m.subjects),
   abstract_length |-> Len(m.abstract.s),
   has_doi |-> IF Truthy(m.doi) THEN "Yes" ELSE "No",
   has_full_text |-> IF m.full_text_links # <<>> THEN "Yes" ELSE "No",
   keyword_count |-> PyLen(m.keywords)]

DigitChars == "0123456789"

\* str.isdigit() on ASCII text: non-empty and every character a digit.
IsDigit(s) ==
  /\ Len(s) > 0
  /\ \A i \in 1..Len(s) : Contains(SubSeq(s, i, i), DigitChars)

DigitValue(c) == (CHOOSE i \in 1..10 : SubSeq(DigitChars, i, i) = c) - 1

RECURSIVE ParseInt(_)
\* int(s) for a string of digits.
ParseInt(s) ==
  IF Len(s) = 0 THEN 0
  ELSE 10 * ParseInt(SubSeq(s, 1, Len(s) - 1)) + DigitValue(SubSeq(s, Len(s), Len(s)))

\* The values of (int(p['year']) for p in all_metadata if p['year'].isdigit())
NumericYears(all) ==
  {ParseInt(all[k].year.s) : k \in {i \in 1..Len(all) : IsDigit(all[i].year.s)}}

SetMin(S) == CHOOSE x \in S : \A y \in S : x <= y
SetMax(S) == CHOOSE x \in S : \A y \in S : x >= y

\* The 'year_range' entry (lines 60-63): min() and max() of the numeric
\* years; .isdigit() needs a string, min() a non-empty sequence.
YearRange(all) ==
  IF \E k \in 1..Len(all) : all[k].year.t # "str" THEN Raise("AttributeError")
  ELSE IF NumericYears(all) = {} THEN Raise("ValueError")
  ELSE Return([earliest |-> SetMin(NumericYears(all)),
               latest |-> SetMax(NumericYears(all))])

\* set(p[f] for p in all_metadata if p[f]) (lines 64-65) needs hashable
\* values: a non-empty list raises.
DistinctValues(all, f) ==
  IF \E k \in 1..Len(all) : all[k][f].t = "list" /\ Truthy(all[k][f])
  THEN Raise("TypeError")
  ELSE Return({all[k][f] : k \in {i \in 1..Len(all) : Truthy(all[i][f])}})

\* The first exception of the dictionary display of lines 45-78, evaluated
\* in order: year_range, countries_represented, journals_represented.
StructuredOutputError(r) ==
  IF Raised(YearRange(r.all_metadata)) THEN YearRange(r.all_metadata)
  ELSE IF Raised(DistinctValues(r.all_metadata, "country"))
       THEN DistinctValues(r.all_metadata, "country")
  ELSE IF Raised(DistinctValues(r.all_metadata, "journal"))
       THEN DistinctValues(r.all_metadata, "journal")
  ELSE Return("")

RECURSIVE FullTextAvailable(_)
\* [p for p in all_metadata if p['full_text_links']]
FullTextAvailable(all) ==
  IF Len(all) = 0 THEN <<>>
  ELSE (IF all[1].full_text_links # <<>> THEN <<all[1]>> ELSE <<>>)
       \o FullTextAvailable(Tail(all))

\* The dictionary built by create_structured_output (lines 45-78), without
\* its extraction_date; list(d.keys()) is kept as the set of keys.
StructuredOutput(r) ==
  LET all == r.all_metadata
  IN [metadata |->
        [total_papers_in_doaj |-> 84,
         papers_analyzed |-> Len(all),
         by_era |-> DOMAIN r.era_categories,
         by_medium |-> DOMAIN r.medium_categories],
      summary_statistics |->
        [era_distribution |->
           [e \in DOMAIN r.era_categories |-> Len(r.era_categories[e])],
         medium_distribution |->
           [m \in DOMAIN r.medium_categories |-> Len(r.medium_categories[m])],
         year_range |-> YearRange(all).val,
         countries_represented |->
           Cardinality(DistinctValues(all, "country").val),
         journals_represented |->
           Cardinality(DistinctValues(all, "journal").val),
         papers_with_full_text |-> Len(FullTextAvailable(all)),
         papers_with_doi |->
           Cardinality({k \in 1..Len(all) : Truthy(all[k].doi)})],
      organized_by_era |-> r.era_categories,
      organized_by_medium |-> r.medium_categories,
      text_analysis_ready |->
        [all_abstracts |->
           [k \in 1..Len(all) |->
              [id |-> all[k].id, title |-> all[k].title,
               abstract |-> all[k].abstract, era |-> all[k].era,
               year |-> all[k].year]],
         all_keywords |->
           [k \in 1..Len(all) |->
              [id |-> all[k].id, title |-> all[k].title,
               keywords |-> all[k].keywords, era |-> all[k].era,
               year |-> all[k].year]],
         full_text_available |-> FullTextAvailable(all)]]

\* The file name of create_era_specific_files (line 86).
EraFileName(e) ==
  "era_"
  \o ReplaceChar(ReplaceChar(ReplaceChar(ReplaceChar(Lower(e), " ", "_"),
                                         "(", ""), ")", ""), "-", "_")
  \o ".json"

\* The files written by create_era_specific_files, by file name.
EraFiles(r) ==
  [f \in {EraFileName(e) : e \in DOMAIN r.era_categories} |->
     LET e == CHOOSE x \in DOMAIN r.era_categories : EraFileName(x) = f
     IN [era |-> e, paper_count |-> Len(r.era_categories[e]),
         papers |-> r.era_categories[e]]]

(***************************************************************************)
(* The pipeline: analyze_modernism.py, then create_analysis_format.py.     *)
(***************************************************************************)
Doi(x) == [type |-> "doi", id |-> x]
Eissn(x) == [type |-> "eissn", id |-> x]
FullText(u) == [type |-> "fulltext", url |-> u]
Homepage(u) == [type |-> "homepage", url |-> u]

PaperWilde ==
  MkPaper(JStr("p1"), "dict", JStr("Oscar Wilde and Aestheticism"),
          JStr("Decadence."), JList(<<"Pater">>), JStr("1998"), "dict",
          JStr("Victorian Studies"), JStr("Indiana University Press"),
          JStr("US"), <<Eissn("1527-2052"), Doi("10.1/p1")>>,
          <<FullText("http://example.org/p1")>>)

PaperPound ==
  MkPaper(JStr("p2"), "dict", JStr("Ezra Pound"), JAbsent, JAbsent,
          JStr("2005"), "dict", JStr("Poetry Magazine"), JAbsent, JStr("GB"),
          <<Eissn("0000-0001")>>, <<Homepage("http://example.org/p2")>>)

\* The text of PaperPound, undated and without a journal.
PaperPoundUndated ==
  MkPaper(JStr("p3"), "dict", JStr("Ezra Pound"), JAbsent, JAbsent,
          JStr("n.d."), "absent", JAbsent, JAbsent, JAbsent, <<>>, <<>>)

\* The journal of PaperWilde with a tied text.
PaperTie ==
  MkPaper(JStr("p4"), "dict", JStr("Wilde and Joyce"), JStr(""), JList(<<>>),
          JAbsent, "dict", JStr("Victorian Studies"),
          JStr("Indiana University Press"), JStr("US"), <<Doi("10.1/p4")>>,
          <<>>)

PaperEmpty ==
  MkPaper(JAbsent, "absent", JAbsent, JAbsent, JAbsent, JAbsent, "absent",
          JAbsent, JAbsent, JAbsent, <<>>, <<>>)

PaperNullTitle ==
  MkPaper(JStr("p6"), "dict", JNull, JStr("Joyce"), JList(<<>>), JStr("2011"),
          "dict", JStr("Modernist Cultures"), JAbsent, JStr("GB"), <<>>, <<>>)

PaperAuden ==
  MkPaper(JStr("p7"), "dict", JStr("Auden in the Thirties"), JAbsent,
          JList(<<"Spender">>), JStr("2010"), "dict", JStr("Poetry Review"),
          JStr("Brill"), JStr("NL"), <<>>,
          <<FullText("http://example.org/p7")>>)

\* Records whose country is a number.
PaperOtherNumericCountry ==
  MkPaper(JStr("p9"), "dict", JStr("Walter Pater"), JAbsent, JAbsent,
          JStr("2004"), "dict", JStr("Modernist Cultures"), JAbsent,
          JNumber(8), <<>>, <<>>)

PaperNumericCountry ==
  MkPaper(JStr("p8"), "dict", JStr("Walter Pater"), JAbsent, JAbsent,
          JStr("2003"), "dict", JStr("Modernist Cultures"), JAbsent, JNum,
          <<>>, <<>>)

PipelinePapers ==
  {PaperWilde, PaperPound, PaperPoundUndated, PaperTie, PaperEmpty,
   PaperNullTitle, PaperAuden, PaperNumericCountry,
   PaperOtherNumericCountry}

\* Sequences over S of length at most n.
SeqsUpTo(S, n) == UNION {[1..k -> S] : k \in 0..n}

Init ==
  /\ data \in SeqsUpTo(PipelinePapers, MaxPapers)
  /\ pc = "loop"
  /\ err = NoError
  /\ paper = NoPaper
  /\ era = NotCalled
  /\ medium = NotCalled
  /\ era_categories = <<>>
  /\ medium_categories = <<>>
  /\ all_papers_metadata = <<>>
  /\ results = <<>>
  /\ csv_data = <<>>
  /\ output = <<>>
  /\ era_files = <<>>

ReporterVars == <<results, csv_data, output, era_files>>
AnalysisVars == <<paper, era, medium, data, era_categories,
                  medium_categories, all_papers_metadata>>

\* One iteration of the loop of analyze_doaj_modernism (lines 72-79).
ProcessPaper ==
  /\ pc = "loop"
  /\ Len(all_papers_metadata) < Len(data)
  /\ LET p == data[Len(all_papers_metadata) + 1]
         e == categorize_by_era(p)
         m == categorize_by_medium(p)
         x == extract_metadata_for_analysis(p)
         metadata == x.val
     IN /\ paper' = p
        /\ IF Raised(e)
           THEN /\ pc' = "raised"
                /\ err' = [in |-> "categorize_by_era", exc |-> e.exc]
                /\ UNCHANGED <<era, medium, era_categories,
                               medium_categories, all_papers_metadata>>
           ELSE IF Raised(m)
           THEN /\ era' = e
                /\ pc' = "raised"
                /\ err' = [in |-> "categorize_by_medium", exc |-> m.exc]
                /\ UNCHANGED <<medium, era_categories, medium_categories,
                               all_papers_metadata>>
           ELSE IF Raised(x)
           THEN /\ era' = e
                /\ medium' = m
                /\ pc' = "raised"
                /\ err' = [in |-> "extract_metadata_for_analysis",
                           exc |-> x.exc]
                /\ UNCHANGED <<era_categories, medium_categories,
                               all_papers_metadata>>
           ELSE /\ era' = e
                /\ medium' = m
                /\ era_categories' = BucketAppend(era_categories, e.val, metadata)
                /\ medium_categories' =
                     BucketAppend(medium_categories, m.val, metadata)
                /\ all_papers_metadata' =
                     Append(all_papers_metadata, WithLabels(metadata, e.val, m.val))
                /\ UNCHANGED <<pc, err>>
  /\ UNCHANGED <<data, ReporterVars>>

\* The loop is exhausted: the report is printed, the result returned
\* (line 95) and written to british_modernism_analysis.json (lines 98-100).
FinishAnalysis ==
  /\ pc = "loop"
  /\ Len(all_papers_metadata) = Len(data)
  /\ results' = [era_categories |-> era_categories,
                 medium_categories |-> medium_categories,
                 all_metadata |-> all_papers_metadata]
  /\ pc' = "saved"
  /\ UNCHANGED <<AnalysisVars, err, csv_data, output, era_files>>

\* load_analysis_results (lines 6-8, 161): the file holds dictionaries with
\* string keys, lists, strings and nulls, which json.load returns as written.
LoadResults ==
  /\ pc = "saved"
  /\ pc' = "loaded"
  /\ UNCHANGED <<AnalysisVars, err, ReporterVars>>

\* create_csv_for_analysis (lines 10-41); csv_data[0] needs one row.
CreateCsv ==
  /\ pc = "loaded"
  /\ IF Len(results.all_metadata) = 0
     THEN /\ pc' = "raised"
          /\ err' = [in |-> "create_csv_for_analysis", exc |-> "IndexError"]
          /\ UNCHANGED csv_data
     ELSE /\ csv_data' = [k \in 1..Len(results.all_metadata) |->
                            CsvRow(results.all_metadata[k])]
          /\ pc' = "csv_written"
          /\ UNCHANGED err
  /\ UNCHANGED <<AnalysisVars, results, output, era_files>>

\* create_structured_output (lines 43-81).
CreateStructuredOutput ==
  /\ pc = "csv_written"
  /\ IF Raised(StructuredOutputError(results))
     THEN /\ pc' = "raised"
          /\ err' = [in |-> "create_structured_output",
                     exc |-> StructuredOutputError(results).exc]
          /\ UNCHANGED output
     ELSE /\ output' = StructuredOutput(results)
          /\ pc' = "structured_written"
          /\ UNCHANGED err
  /\ UNCHANGED <<AnalysisVars, results, csv_data, era_files>>

\* create_era_specific_files (lines 83-93).
CreateEraSpecificFiles ==
  /\ pc = "structured_written"
  /\ era_files' = EraFiles(results)
  /\ pc' = "era_files_written"
  /\ UNCHANGED <<AnalysisVars, err, results, csv_data, output>>

\* create_readme (lines 95-158) writes a constant text.
CreateReadme ==
  /\ pc = "era_files_written"
  /\ pc' = "done"
  /\ UNCHANGED <<AnalysisVars, err, ReporterVars>>

Next ==
  \/ ProcessPaper
  \/ FinishAnalysis
  \/ LoadResults
  \/ CreateCsv
  \/ CreateStructuredOutput
  \/ CreateEraSpecificFiles
  \/ CreateReadme

Spec == Init /\ [][Next]_vars

(***************************************************************************)
(* Properties of the pipeline.                                             *)
(***************************************************************************)
AfterAnalysis ==
  pc \in {"saved", "loaded", "csv_written", "structured_written",
          "era_files_written", "done"}
  \/ (pc = "raised" /\ err.in \in {"create_csv_for_analysis",
                                    "create_structured_output"})

\* create_structured_output has been called (and returned or raised).
StructuredOutputCalled ==
  pc \in {"structured_written", "era_files_written", "done"}
  \/ (pc = "raised" /\ err.in = "create_structured_output")

\* The year strings that are purely numeric, as integers.
PurelyNumericYears ==
  {ParseInt(all_papers_metadata[k].year.s) :
     k \in {i \in 1..Len(all_papers_metadata) :
              LET y == all_papers_metadata[i].year.s
              IN y # "" /\ \A c \in 1..Len(y) :
                             SubSeq(y, c, c) \in {"0", "1", "2", "3", "4", "5",
                                                  "6", "7", "8", "9"}}}

\* C6: for any mix of numeric and non-numeric year strings the year-range
\* aggregation of create_structured_output completes without raising, and
\* earliest/latest are the min/max of exactly the purely numeric years.
C6_YearRangeNeverRaises ==
  StructuredOutputCalled =>
    /\ pc # "raised"
    /\ \A y \in PurelyNumericYears :
         /\ output.summary_statistics.year_range.earliest <= y
         /\ output.summary_statistics.year_range.latest >= y
    /\ output.summary_statistics.year_range.earliest \in PurelyNumericYears
    /\ output.summary_statistics.year_range.latest \in PurelyNumericYears

\* Number of positions of the sequence s that hold x.
Occurrences(x, s) == Cardinality({k \in 1..Len(s) : s[k] = x})

\* Sum of the bucket lengths of a category dictionary.
RECURSIVE TotalLen(_, _)
TotalLen(categories, keys) ==
  IF keys = {} THEN 0
  ELSE LET k == CHOOSE x \in keys : TRUE
       IN Len(categories[k]) + TotalLen(categories, keys \ {k})

\* The buckets hold each input record exactly once, in the bucket keyed by
\* the label that all_metadata records for it.
Partitions(categories, label(_)) ==
  /\ TotalLen(categories, DOMAIN categories) = Len(data)
  /\ \A k \in 1..Len(data) :
       LET m == extract_metadata_for_analysis(data[k]).val
       IN /\ label(k) \in DOMAIN categories
          /\ \A L \in DOMAIN categories :
               Occurrences(m, categories[L]) =
                 Cardinality({j \in 1..Len(data) :
                                /\ extract_metadata_for_analysis(data[j]).val = m
                                /\ label(j) = L})

\* C7: after analyze_doaj_modernism the era buckets partition the input:
\* every input record is exactly once in exactly one era bucket, the one keyed
\* by its era label in all_metadata; the same for the medium buckets.
C7_BucketPartition ==
  AfterAnalysis =>
    /\ Len(all_papers_metadata) = Len(data)
    /\ LET eraOf(k) == all_papers_metadata[k].era
           mediumOf(k) == all_papers_metadata[k].medium
       IN /\ Partitions(era_categories, eraOf)
          /\ Partitions(medium_categories, mediumOf)

C7_Witness ==
  /\ pc = "saved"
  /\ Len(data) = 3
  /\ Cardinality(DOMAIN era_categories) = 2
  /\ \E L \in DOMAIN era_categories : Len(era_categories[L]) = 2
  /\ Cardinality(DOMAIN medium_categories) = 3

RECURSIVE WithLabel(_, _, _)
\* The metadata of the entries of all whose field f is L, in order.
WithLabel(all, f, L) ==
  IF Len(all) = 0 THEN <<>>
  ELSE (IF all[1][f] = L THEN <<WithoutLabels(all[1])>> ELSE <<>>)
       \o WithLabel(Tail(all), f, L)

IsPrefix(s, t) == Len(s) <= Len(t) /\ SubSeq(t, 1, Len(s)) = s

\* After any prefix of the input: all_metadata is that prefix, and every
\* bucket is the subsequence of the prefix carrying its label.
C8_Buckets ==
  pc = "loop" =>
    /\ Len(all_papers_metadata) <= Len(data)
    /\ \A k \in 1..Len(all_papers_metadata) :
         WithoutLabels(all_papers_metadata[k]) =
           extract_metadata_for_analysis(data[k]).val
    /\ DOMAIN era_categories =
         {all_papers_metadata[k].era : k \in 1..Len(all_papers_metadata)}
    /\ DOMAIN medium_categories =
         {all_papers_metadata[k].medium : k \in 1..Len(all_papers_metadata)}
    /\ \A L \in DOMAIN era_categories :
         era_categories[L] = WithLabel(all_papers_metadata, "era", L)
    /\ \A L \in DOMAIN medium_categories :
         medium_categories[L] = WithLabel(all_papers_metadata, "medium", L)

\* A step only appends: every list is a prefix of its next value.
C8_AppendOnly ==
  /\ IsPrefix(all_papers_metadata, all_papers_metadata')
  /\ \A L \in DOMAIN era_categories :
       /\ L \in DOMAIN era_categories'
       /\ IsPrefix(era_categories[L], era_categories'[L])
  /\ \A L \in DOMAIN medium_categories :
       /\ L \in DOMAIN medium_categories'
       /\ IsPrefix(medium_categories[L], medium_categories'[L])

\* C8: at every step of the processing loop each era bucket and each medium
\* bucket is the subsequence of the processed input records carrying that
\* label, in input order, all_metadata is the processed prefix in input
\* order, and records are only ever appended.
C8_InputOrder == []C8_Buckets /\ [][C8_AppendOnly]_vars

C8_Witness ==
  /\ pc = "loop"
  /\ Len(all_papers_metadata) = 2
  /\ Len(data) = 3
  /\ \E L \in DOMAIN era_categories :
       /\ Len(era_categories[L]) = 2
       /\ era_categories[L][1] # era_categories[L][2]

\* C9: records that agree on title, abstract and keywords have the same era
\* label whatever their other fields and positions; records that agree on
\* journal title and publisher have the same medium label.
C9_LabelsDependOnTextOnly ==
  \A i, j \in 1..Len(all_papers_metadata) :
    LET a == all_papers_metadata[i]
        b == all_papers_metadata[j]
    IN /\ (a.title = b.title /\ a.abstract = b.abstract
           /\ a.keywords = b.keywords) => a.era = b.era
       /\ (a.journal = b.journal /\ a.publisher = b.publisher)
            => a.medium = b.medium

C9_Witness ==
  \E i, j \in 1..Len(all_papers_metadata) :
    LET a == all_papers_metadata[i]
        b == all_papers_metadata[j]
    IN /\ i + 1 < j
       /\ a.title = b.title /\ a.abstract = b.abstract
       /\ a.keywords = b.keywords
       /\ a.year # b.year /\ a.journal # b.journal
       /\ a.era = HighLabel /\ b.era = HighLabel

\* C10: the reporter does not alter classification: the era and medium of
\* the CSV rows and of all_abstracts / all_keywords are the classifier's
\* labels, the buckets pass through unchanged to organized_by_era /
\* organized_by_medium and the per-era files, and every distribution and
\* paper_count value is the size of its bucket.
C10_ReporterKeepsLabels ==
  /\ pc \in {"loaded", "csv_written", "structured_written",
             "era_files_written", "done"} =>
       /\ results.era_categories = era_categories
       /\ results.medium_categories = medium_categories
       /\ results.all_metadata = all_papers_metadata
  /\ pc \in {"csv_written", "structured_written", "era_files_written",
             "done"} =>
       /\ Len(csv_data) = Len(all_papers_metadata)
       /\ \A k \in 1..Len(csv_data) :
            /\ csv_data[k].era = all_papers_metadata[k].era
            /\ csv_data[k].medium = all_papers_metadata[k].medium
  /\ pc \in {"structured_written", "era_files_written", "done"} =>
       LET stats == output.summary_statistics
           ready == output.text_analysis_ready
       IN /\ output.organized_by_era = era_categories
          /\ output.organized_by_medium = medium_categories
          /\ DOMAIN stats.era_distribution = DOMAIN era_categories
          /\ \A e \in DOMAIN era_categories :
               stats.era_distribution[e] = Len(era_categories[e])
          /\ DOMAIN stats.medium_distribution = DOMAIN medium_categories
          /\ \A m \in DOMAIN medium_categories :
               stats.medium_distribution[m] = Len(medium_categories[m])
          /\ Len(ready.all_abstracts) = Len(all_papers_metadata)
          /\ Len(ready.all_keywords) = Len(all_papers_metadata)
          /\ \A k \in 1..Len(all_papers_metadata) :
               /\ ready.all_abstracts[k].era = all_papers_metadata[k].era
               /\ ready.all_keywords[k].era = all_papers_metadata[k].era
  /\ pc \in {"era_files_written", "done"} =>
       /\ Cardinality(DOMAIN era_files) = Cardinality(DOMAIN era_categories)
       /\ \A f \in DOMAIN era_files :
            /\ era_files[f].era \in DOMAIN era_categories
            /\ era_files[f].papers = era_categories[era_files[f].era]
            /\ era_files[f].paper_count = Len(era_categories[era_files[f].era])

C10_Witness ==
  /\ pc = "done"
  /\ Len(csv_data) = 3
  /\ csv_data[1].era = EarlyLabel /\ csv_data[1].medium = AcademicLabel
  /\ csv_data[2].era = HighLabel /\ csv_data[2].medium = LiteraryLabel
  /\ Cardinality(DOMAIN era_files) = 3

====
